---- MODULE Spec2Model ----
(***************************************************************************)
(* The Health and Fitness Club CLI (app/demo.py) run against a PostgreSQL  *)
(* store through psycopg2 connections: the scheduling and capacity control *)
(* of set_trainer_availability, create_or_update_class_session and         *)
(* register_member_for_class, and the member operations register_member    *)
(* and update_member_profile.                                              *)
(*                                                                         *)
(* Each connection runs one operation at a time; an operation is a short   *)
(* sequence of SQL statements, and each statement is one step here, so     *)
(* that two connections can interleave between a SELECT and the INSERT     *)
(* that follows it.  The tables hold committed rows only; a row written    *)
(* by a statement stays in the connection's pending write until            *)
(* conn.commit() and is dropped by conn.rollback() or by the connection    *)
(* closing.                                                                *)
(*                                                                         *)
(* Timestamps are naturals: the operations only pass them to tstzrange(),  *)
(* which compares them; emails, names and the other member fields are      *)
(* naturals too, compared for equality only.  No operation reads the id    *)
(* of a trainer_availability or class_registrations row, so these two      *)
(* tables are bags of rows without it; members and class_sessions rows     *)
(* are addressed by id.                                                    *)
(***************************************************************************)
EXTENDS Integers, Sequences, FiniteSets, Bags, TLC

\* ------------------------------------------------------------------ bounds
MaxTime == 3
MaxSessTime == 2
MaxAvail == 3
MaxSessions == 2
MaxMembers == 2
MaxMaint == 2
MaxStamp == 2
MaxMetrics == 2

\* Python None / SQL NULL.  Every identifier of the store is >= 1.
NULL == 0

\* The connections: one per running CLI process.
Conns == {1, 2}

\* ------------------------------------------- rows the operations only read
\* (tables no operation modelled here writes)
Trainers == {1, 2}
Rooms == {1}
Classes == {1, 2}
Members == {1, 2, 3}
Equipment == {1}
Admins == {1}

\* classes.default_capacity
default_capacity == [c \in Classes |-> c]

\* A members row.
MemberRow(email, full_name, date_of_birth, gender, phone) ==
    [email |-> email, full_name |-> full_name, date_of_birth |-> date_of_birth,
     gender |-> gender, phone |-> phone]

\* The members table before the scheduling operations run: one row per
\* identifier of Members, each with an email of its own.
SeedMembers ==
    <<MemberRow(1, 1, NULL, NULL, NULL), MemberRow(2, 1, NULL, NULL, NULL),
      MemberRow(3, 1, NULL, NULL, NULL)>>

\* The (start, end) pairs the prompts can yield, in either order.
Spans == (0..MaxTime) \X (0..MaxTime)

SessSpans == (0..MaxSessTime) \X (0..MaxSessTime)

VARIABLES
    exclusion,  \* whether the store declares the range-exclusion constraints
    unique_email, \* whether the store declares members.email unique
    members,    \* members: committed rows, id = position
    maint,      \* equipment_maintenance: committed rows, id = position
    metrics,    \* health_metrics: the bag of committed rows
    avail,      \* trainer_availability: the bag of committed rows
    sessions,   \* class_sessions: committed rows, id = position
    regs,       \* class_registrations: the bag of committed rows
    pc,         \* per connection: where its operation stands
    call,       \* per connection: the operation and its arguments
    local,      \* per connection: the row register_member_for_class fetched
    pend,       \* per connection: rows written and not yet committed
    ret,        \* per connection: statements executed so far, and the result
    pre         \* per connection: the tables as they were when the call began

vars == <<exclusion, unique_email, members, maint, metrics, avail, sessions, regs, pc, call, local, pend, ret, pre>>

\* --------------------------------------------------------------- ranges
\* A stored range is <<lo, hi>> with lo < hi, or the empty range, which has
\* no bounds.
EmptyRange == <<>>

\* tstzrange(s, e, '[)') raises when s > e ...
RangeError(s, e) == s > e

\* ... and yields the empty range when s = e.
TsRange(s, e) == IF s = e THEN EmptyRange ELSE <<s, e>>

\* a && b on ranges: an empty range overlaps nothing.
RangeOverlaps(a, b) ==
    /\ a # EmptyRange
    /\ b # EmptyRange
    /\ a[1] < b[2]
    /\ b[1] < a[2]

\* ------------------------------------------------------- values and rows
NoCall ==
    [op |-> "none", class_id |-> NULL, trainer_id |-> NULL, room_id |-> NULL,
     start_ts |-> NULL, end_ts |-> NULL, capacity |-> NULL,
     session_id |-> NULL, member_id |-> NULL, note |-> NULL,
     email |-> NULL, full_name |-> NULL, date_of_birth |-> NULL,
     gender |-> NULL, phone |-> NULL,
     equipment_id |-> NULL, admin_id |-> NULL, issue_description |-> NULL,
     maintenance_id |-> NULL, metric_type |-> NULL, metric_value |-> NULL]

PyTrue == [tag |-> "bool", v |-> 1]
PyFalse == [tag |-> "bool", v |-> 0]
PyNone == [tag |-> "none", v |-> 0]
PyInt(n) == [tag |-> "int", v |-> n]
PyException == [tag |-> "exception", v |-> 0]

\* io counts the SQL statements the call has executed.
NoRet == [val |-> PyNone, kind |-> "none", io |-> 0]

NoLocal == [max_capacity |-> 0, current_count |-> 0]

NoWrite == <<>>

Db == [members |-> members, maint |-> maint, metrics |-> metrics, avail |-> avail, sessions |-> sessions, regs |-> regs]

NoDb == [members |-> <<>>, maint |-> <<>>, metrics |-> EmptyBag, avail |-> EmptyBag, sessions |-> <<>>, regs |-> EmptyBag]

\* ------------------------------------------------------------ the menus
\* A menu option calls an operation with the arguments read from the prompts.
Begin(c, rec, first) ==
    /\ pc[c] = "menu"
    /\ call' = [call EXCEPT ![c] = rec]
    /\ pc' = [pc EXCEPT ![c] = first]
    /\ pre' = [pre EXCEPT ![c] = Db]
    /\ UNCHANGED <<exclusion, unique_email, metrics, members, maint, avail, sessions, regs, local, pend, ret>>

\* The operation returned; the menu drops the result and prompts again.
Return(c) ==
    /\ pc[c] = "returned"
    /\ pc' = [pc EXCEPT ![c] = "menu"]
    /\ call' = [call EXCEPT ![c] = NoCall]
    /\ local' = [local EXCEPT ![c] = NoLocal]
    /\ ret' = [ret EXCEPT ![c] = NoRet]
    /\ pre' = [pre EXCEPT ![c] = NoDb]
    /\ UNCHANGED <<exclusion, unique_email, metrics, members, maint, avail, sessions, regs, pend>>

\* `return val` after one more statement (stmt = 1) or none (stmt = 0).
Finish(c, val, kind, stmt) ==
    /\ pc' = [pc EXCEPT ![c] = "returned"]
    /\ ret' = [ret EXCEPT ![c] = [val |-> val, kind |-> kind, io |-> @.io + stmt]]

\* A statement raised and nothing in the operation catches it: the exception
\* leaves the operation and the menus, and main() closes the connection,
\* which discards whatever it had pending.
Raise(c, kind) ==
    /\ pc' = [pc EXCEPT ![c] = "raised"]
    /\ ret' = [ret EXCEPT ![c] = [val |-> PyException, kind |-> kind, io |-> @.io + 1]]
    /\ pend' = [pend EXCEPT ![c] = NoWrite]

\* conn.rollback()
Rollback(c) == pend' = [pend EXCEPT ![c] = NoWrite]

\* One more statement executed, the operation goes on.
Step(c, next) ==
    /\ pc' = [pc EXCEPT ![c] = next]
    /\ ret' = [ret EXCEPT ![c].io = @ + 1]

\* The rows another connection has written to table tbl and not committed.
OthersPending(c, tbl) ==
    {pend[d][1].row : d \in {e \in Conns \ {c} : pend[e] # NoWrite /\ pend[e][1].tbl = tbl}}

\* ------------------------------------------------ the store's constraints
\* FOREIGN KEY trainer_availability.trainer_id, class_sessions.trainer_id
TrainerExists(t) == t \in Trainers

\* FOREIGN KEY class_sessions.class_id
ClassExists(k) == k \in Classes

\* FOREIGN KEY class_sessions.room_id (a NULL room references nothing)
RoomExists(r) == r = NULL \/ r \in Rooms

\* FOREIGN KEY equipment_maintenance.equipment_id
EquipmentExists(e) == e \in Equipment

\* FOREIGN KEY equipment_maintenance.reported_by_admin
AdminExists(a) == a \in Admins

\* FOREIGN KEY class_registrations.member_id
MemberExists(m) == m \in DOMAIN members

\* Range exclusion on trainer_availability (trainer_id WITH =, avail_range
\* WITH &&): whether row conflicts with one of rows.
AvailExcluded(rows, row) ==
    \E r \in BagToSet(rows) :
        /\ r.trainer_id = row.trainer_id
        /\ RangeOverlaps(r.range, row.range)

\* Range exclusion on class_sessions, per trainer and per room: whether row,
\* stored under identifier self (NULL for a new row), conflicts with another
\* row of rows.
SessionExcluded(rows, row, self) ==
    \E i \in DOMAIN rows :
        /\ i # self
        /\ RangeOverlaps(rows[i].range, row.range)
        /\ \/ rows[i].trainer_id = row.trainer_id
           \/ (row.room_id # NULL /\ rows[i].room_id = row.room_id)

\* UNIQUE (class_session_id, member_id) on class_registrations
UniqueViolation(rows, sid, mid) ==
    \E r \in BagToSet(rows) :
        r.class_session_id = sid /\ r.member_id = mid

\* ------------------------------------------- set_trainer_availability
AvailCall(c, tids, spans) ==
    \E t \in tids, sp \in spans :
        /\ BagCardinality(avail) < MaxAvail
        /\ Begin(c, [NoCall EXCEPT !.op = "set_trainer_availability",
                                   !.trainer_id = t, !.start_ts = sp[1],
                                   !.end_ts = sp[2]],
                 "avail_select")

\* The query with a test that misses a stored range starting before
\* the new one: it only asks whether a stored range starts inside it.
AvailOverlapFoundStartInside(rows, t, s, e) ==
    \E r \in BagToSet(rows) :
        /\ r.trainer_id = t
        /\ r.range # EmptyRange
        /\ s <= r.range[1]
        /\ r.range[1] < e

\* The query with closed ranges, '[]' for '[)': touching ranges overlap.
AvailOverlapFoundClosed(rows, t, s, e) ==
    \E r \in BagToSet(rows) :
        /\ r.trainer_id = t
        /\ r.range # EmptyRange
        /\ s < e
        /\ r.range[1] <= e
        /\ s <= r.range[2]

\* The query without `trainer_id = %s`: any trainer's range counts.
AvailOverlapFoundAnyTrainer(rows, t, s, e) ==
    \E r \in BagToSet(rows) : RangeOverlaps(r.range, TsRange(s, e))

\* SELECT 1 FROM trainer_availability WHERE trainer_id = %s
\*   AND avail_range && tstzrange(%s, %s, '[)')
AvailOverlapFound(rows, t, s, e) ==
    \E r \in BagToSet(rows) :
        /\ r.trainer_id = t
        /\ RangeOverlaps(r.range, TsRange(s, e))

\* The SELECT and the test of cur.fetchone().
AvailSelect(c) ==
    /\ pc[c] = "avail_select"
    /\ LET a == call[c] IN
       IF RangeError(a.start_ts, a.end_ts)
       THEN Raise(c, "DataError")
       ELSE IF AvailOverlapFound(avail, a.trainer_id, a.start_ts, a.end_ts)
       THEN Finish(c, PyFalse, "OverlappingAvailability", 1) /\ Rollback(c)
       ELSE Step(c, "avail_insert") /\ UNCHANGED pend
    /\ UNCHANGED <<exclusion, unique_email, metrics, members, maint, avail, sessions, regs, call, local, pre>>

\* The INSERT into a table that accepts overlapping ranges whatever the
\* store declares: it neither waits nor raises ExclusionViolation.
AvailInsertNeverExcluded(c) ==
    /\ pc[c] = "avail_insert"
    /\ LET a == call[c]
           row == [trainer_id |-> a.trainer_id,
                   range |-> TsRange(a.start_ts, a.end_ts),
                   note |-> a.note]
       IN
       IF ~TrainerExists(a.trainer_id)
       THEN Raise(c, "ForeignKeyViolation")
       ELSE /\ Step(c, "avail_commit")
            /\ pend' = [pend EXCEPT ![c] =
                          <<[tbl |-> "trainer_availability", id |-> NULL, row |-> row]>>]
    /\ UNCHANGED <<exclusion, unique_email, metrics, members, maint, avail, sessions, regs, call, local, pre>>

\* INSERT INTO trainer_availability ... RETURNING id.  The statement waits
\* while another connection holds an uncommitted row the exclusion
\* constraint would conflict with.
AvailInsert(c) ==
    /\ pc[c] = "avail_insert"
    /\ LET a == call[c]
           row == [trainer_id |-> a.trainer_id,
                   range |-> TsRange(a.start_ts, a.end_ts),
                   note |-> a.note]
       IN
       /\ ~(exclusion /\ \E o \in OthersPending(c, "trainer_availability") :
                            AvailExcluded(SetToBag({o}), row))
       /\ IF ~TrainerExists(a.trainer_id)
          THEN Raise(c, "ForeignKeyViolation")
          ELSE IF exclusion /\ AvailExcluded(avail, row)
          THEN Raise(c, "ExclusionViolation")
          ELSE /\ Step(c, "avail_commit")
               /\ pend' = [pend EXCEPT ![c] =
                             <<[tbl |-> "trainer_availability", id |-> NULL, row |-> row]>>]
    /\ UNCHANGED <<exclusion, unique_email, metrics, members, maint, avail, sessions, regs, call, local, pre>>

\* The commit of a statement that replaced the trainer's rows by the new
\* one instead of adding to them.
AvailCommitReplaces(c) ==
    /\ pc[c] = "avail_commit"
    /\ avail' = SetToBag({pend[c][1].row})
    /\ pend' = [pend EXCEPT ![c] = NoWrite]
    /\ Finish(c, PyTrue, "Ok", 0)
    /\ UNCHANGED <<exclusion, unique_email, metrics, members, maint, sessions, regs, call, local, pre>>

\* conn.commit(); return True
AvailCommit(c) ==
    /\ pc[c] = "avail_commit"
    /\ avail' = avail (+) SetToBag({pend[c][1].row})
    /\ pend' = [pend EXCEPT ![c] = NoWrite]
    /\ Finish(c, PyTrue, "Ok", 0)
    /\ UNCHANGED <<exclusion, unique_email, metrics, members, maint, sessions, regs, call, local, pre>>

\* --------------------------------------- create_or_update_class_session
SessCall(c, kids, tids, rids, spans, caps, sids) ==
    \E k \in kids, t \in tids, r \in rids, sp \in spans, cap \in caps,
       sid \in sids :
        /\ sid = NULL => Len(sessions) < MaxSessions
        /\ Begin(c, [NoCall EXCEPT !.op = "create_or_update_class_session",
                                   !.class_id = k, !.trainer_id = t,
                                   !.room_id = r, !.start_ts = sp[1],
                                   !.end_ts = sp[2], !.capacity = cap,
                                   !.session_id = sid],
                 "sess_exec")

\* The row the INSERT or the UPDATE writes.
SessRow(a) ==
    [class_id |-> a.class_id, trainer_id |-> a.trainer_id,
     room_id |-> a.room_id, range |-> TsRange(a.start_ts, a.end_ts),
     capacity |-> a.capacity]

\* Whether the store rejects the statement writing row under identifier
\* self: psycopg2.Error, whatever the constraint.
SessRejected(rows, a, self) ==
    \/ RangeError(a.start_ts, a.end_ts)
    \/ ~ClassExists(a.class_id)
    \/ ~TrainerExists(a.trainer_id)
    \/ ~RoomExists(a.room_id)
    \/ (exclusion /\ SessionExcluded(rows, SessRow(a), self))

\* except psycopg2.Error: conn.rollback(); return None
SessFailed(c) ==
    /\ Finish(c, PyNone, "PersistenceError", 1)
    /\ Rollback(c)

\* The operation as an upsert: an UPDATE that matches no row falls back to
\* inserting the session.
SessExecInsertFallback(c) ==
    /\ pc[c] = "sess_exec"
    /\ LET a == call[c] IN
       /\ ~(exclusion /\ ~RangeError(a.start_ts, a.end_ts)
              /\ \E o \in OthersPending(c, "class_sessions") :
                    SessionExcluded(<<o>>, SessRow(a), NULL))
       /\ \A d \in Conns \ {c} :
             ~(/\ a.session_id # NULL
               /\ pend[d] # NoWrite
               /\ pend[d][1].tbl = "class_sessions"
               /\ pend[d][1].id = a.session_id)
       /\ IF a.session_id = NULL
          THEN IF SessRejected(sessions, a, NULL)
               THEN SessFailed(c)
               ELSE /\ Step(c, "sess_commit")
                    /\ pend' = [pend EXCEPT ![c] =
                          <<[tbl |-> "class_sessions", id |-> NULL, row |-> SessRow(a)]>>]
          ELSE IF RangeError(a.start_ts, a.end_ts)
               THEN SessFailed(c)
               ELSE IF a.session_id \notin DOMAIN sessions
               THEN /\ Step(c, "sess_commit")
                    /\ pend' = [pend EXCEPT ![c] =
                          <<[tbl |-> "class_sessions", id |-> NULL, row |-> SessRow(a)]>>]
               ELSE IF SessRejected(sessions, a, a.session_id)
               THEN SessFailed(c)
               ELSE /\ Step(c, "sess_commit")
                    /\ pend' = [pend EXCEPT ![c] =
                          <<[tbl |-> "class_sessions", id |-> a.session_id,
                             row |-> SessRow(a)]>>]
    /\ UNCHANGED <<exclusion, unique_email, metrics, members, maint, avail, sessions, regs, call, local, pre>>

\* The operation with the UPDATE checked against every stored row, the
\* session's own current row included.
SessExecAgainstAllRows(c) ==
    /\ pc[c] = "sess_exec"
    /\ LET a == call[c] IN
       /\ ~(exclusion /\ ~RangeError(a.start_ts, a.end_ts)
              /\ \E o \in OthersPending(c, "class_sessions") :
                    SessionExcluded(<<o>>, SessRow(a), NULL))
       /\ \A d \in Conns \ {c} :
             ~(/\ a.session_id # NULL
               /\ pend[d] # NoWrite
               /\ pend[d][1].tbl = "class_sessions"
               /\ pend[d][1].id = a.session_id)
       /\ IF a.session_id = NULL
          THEN IF SessRejected(sessions, a, NULL)
               THEN SessFailed(c)
               ELSE /\ Step(c, "sess_commit")
                    /\ pend' = [pend EXCEPT ![c] =
                          <<[tbl |-> "class_sessions", id |-> NULL, row |-> SessRow(a)]>>]
          ELSE IF RangeError(a.start_ts, a.end_ts)
               THEN SessFailed(c)
               ELSE IF a.session_id \notin DOMAIN sessions
               THEN Finish(c, PyNone, "NotFound", 1) /\ Rollback(c)
               ELSE IF SessRejected(sessions, a, NULL)
               THEN SessFailed(c)
               ELSE /\ Step(c, "sess_commit")
                    /\ pend' = [pend EXCEPT ![c] =
                          <<[tbl |-> "class_sessions", id |-> a.session_id,
                             row |-> SessRow(a)]>>]
    /\ UNCHANGED <<exclusion, unique_email, metrics, members, maint, avail, sessions, regs, call, local, pre>>

\* The INSERT (session_id is None) or the UPDATE ... WHERE id = session_id,
\* and for the UPDATE the test of the returned row.  Either statement waits
\* while another connection holds an uncommitted row the exclusion
\* constraint would conflict with, and the UPDATE while another connection
\* holds an uncommitted update of the same row.
SessExec(c) ==
    /\ pc[c] = "sess_exec"
    /\ LET a == call[c] IN
       /\ ~(exclusion /\ ~RangeError(a.start_ts, a.end_ts)
              /\ \E o \in OthersPending(c, "class_sessions") :
                    SessionExcluded(<<o>>, SessRow(a), NULL))
       /\ \A d \in Conns \ {c} :
             ~(/\ a.session_id # NULL
               /\ pend[d] # NoWrite
               /\ pend[d][1].tbl = "class_sessions"
               /\ pend[d][1].id = a.session_id)
       /\ IF a.session_id = NULL
          THEN IF SessRejected(sessions, a, NULL)
               THEN SessFailed(c)
               ELSE /\ Step(c, "sess_commit")
                    /\ pend' = [pend EXCEPT ![c] =
                          <<[tbl |-> "class_sessions", id |-> NULL, row |-> SessRow(a)]>>]
          ELSE IF RangeError(a.start_ts, a.end_ts)
               THEN SessFailed(c)
               ELSE IF a.session_id \notin DOMAIN sessions
               THEN Finish(c, PyNone, "NotFound", 1) /\ Rollback(c)
               ELSE IF SessRejected(sessions, a, a.session_id)
               THEN SessFailed(c)
               ELSE /\ Step(c, "sess_commit")
                    /\ pend' = [pend EXCEPT ![c] =
                          <<[tbl |-> "class_sessions", id |-> a.session_id,
                             row |-> SessRow(a)]>>]
    /\ UNCHANGED <<exclusion, unique_email, metrics, members, maint, avail, sessions, regs, call, local, pre>>

\* The commit of an UPDATE that replaced the row the way DELETE and INSERT
\* would: the registrations of the session go with the old row.
SessCommitDropsRoster(c) ==
    /\ pc[c] = "sess_commit"
    /\ LET w == pend[c][1] IN
       IF w.id = NULL
       THEN /\ sessions' = Append(sessions, w.row)
            /\ regs' = regs
            /\ Finish(c, PyInt(Len(sessions) + 1), "Ok", 0)
       ELSE /\ sessions' = [sessions EXCEPT ![w.id] = w.row]
            /\ regs' = [r \in {x \in BagToSet(regs) : x.class_session_id # w.id} |-> regs[r]]
            /\ Finish(c, PyInt(w.id), "Ok", 0)
    /\ pend' = [pend EXCEPT ![c] = NoWrite]
    /\ UNCHANGED <<exclusion, unique_email, metrics, members, maint, avail, call, local, pre>>

\* conn.commit(); return new_id, or return session_id
SessCommit(c) ==
    /\ pc[c] = "sess_commit"
    /\ LET w == pend[c][1] IN
       IF w.id = NULL
       THEN /\ sessions' = Append(sessions, w.row)
            /\ Finish(c, PyInt(Len(sessions) + 1), "Ok", 0)
       ELSE /\ sessions' = [sessions EXCEPT ![w.id] = w.row]
            /\ Finish(c, PyInt(w.id), "Ok", 0)
    /\ pend' = [pend EXCEPT ![c] = NoWrite]
    /\ UNCHANGED <<exclusion, unique_email, metrics, members, maint, avail, regs, call, local, pre>>

\* -------------------------------------------- register_member_for_class
RegCall(c, sids, mids) ==
    \E sid \in sids, m \in mids :
        Begin(c, [NoCall EXCEPT !.op = "register_member_for_class",
                                !.session_id = sid, !.member_id = m],
              "reg_select")

\* The limit taken from the class alone, whatever capacity the session holds.
EffectiveCapacityClassDefault(s) == default_capacity[s.class_id]

\* COALESCE(cs.capacity, c.default_capacity)
EffectiveCapacity(s) ==
    IF s.capacity # NULL THEN s.capacity ELSE default_capacity[s.class_id]

\* COUNT(cr.id) over the session's registrations
RegCount(rows, sid) ==
    BagCardinality([r \in {x \in BagToSet(rows) : x.class_session_id = sid} |-> rows[r]])

\* No comparison at all: the function goes on to the INSERT whatever the
\* count.
SessionIsFullNever(row) == FALSE

\* The comparison off by one: > for >=.
SessionIsFullOffByOne(row) == row.current_count > row.max_capacity

\* current_count >= max_capacity
SessionIsFull(row) == row.current_count >= row.max_capacity

\* The SELECT of the session with its capacity and count, and the two tests
\* of the fetched row.  Neither early return rolls back.
RegSelect(c) ==
    /\ pc[c] = "reg_select"
    /\ LET sid == call[c].session_id IN
       IF sid \notin DOMAIN sessions
       THEN Finish(c, PyFalse, "NotFound", 1) /\ UNCHANGED local
       ELSE LET row == [max_capacity |-> EffectiveCapacity(sessions[sid]),
                        current_count |-> RegCount(regs, sid)]
            IN /\ local' = [local EXCEPT ![c] = row]
               /\ IF SessionIsFull(row)
                  THEN Finish(c, PyFalse, "SessionFull", 1)
                  ELSE Step(c, "reg_insert")
    /\ UNCHANGED <<exclusion, unique_email, metrics, members, maint, avail, sessions, regs, call, pend, pre>>

\* The INSERT into a table that accepts a second row for the same
\* (class_session_id, member_id): no UniqueViolation is ever raised.
RegInsertNoUniqueViolation(c) ==
    /\ pc[c] = "reg_insert"
    /\ LET a == call[c] IN
       IF ~MemberExists(a.member_id)
       THEN Finish(c, PyFalse, "PersistenceError", 1) /\ Rollback(c)
       ELSE /\ Step(c, "reg_commit")
            /\ pend' = [pend EXCEPT ![c] =
                  <<[tbl |-> "class_registrations", id |-> NULL,
                     row |-> [class_session_id |-> a.session_id,
                              member_id |-> a.member_id]]>>]
    /\ UNCHANGED <<exclusion, unique_email, metrics, members, maint, avail, sessions, regs, call, local, pre>>

\* INSERT INTO class_registrations ... RETURNING id, and the two except
\* clauses.  The statement waits while another connection holds an
\* uncommitted row with the same (class_session_id, member_id).
RegInsert(c) ==
    /\ pc[c] = "reg_insert"
    /\ LET a == call[c] IN
       /\ \A o \in OthersPending(c, "class_registrations") :
             ~UniqueViolation(SetToBag({o}), a.session_id, a.member_id)
       /\ IF UniqueViolation(regs, a.session_id, a.member_id)
          THEN Finish(c, PyFalse, "AlreadyRegistered", 1) /\ Rollback(c)
          ELSE IF ~MemberExists(a.member_id)
          THEN Finish(c, PyFalse, "PersistenceError", 1) /\ Rollback(c)
          ELSE /\ Step(c, "reg_commit")
               /\ pend' = [pend EXCEPT ![c] =
                     <<[tbl |-> "class_registrations", id |-> NULL,
                        row |-> [class_session_id |-> a.session_id,
                                 member_id |-> a.member_id]]>>]
    /\ UNCHANGED <<exclusion, unique_email, metrics, members, maint, avail, sessions, regs, call, local, pre>>

\* The commit followed by `return False`: a success reported as a failure.
RegCommitReturnsFalse(c) ==
    /\ pc[c] = "reg_commit"
    /\ regs' = regs (+) SetToBag({pend[c][1].row})
    /\ pend' = [pend EXCEPT ![c] = NoWrite]
    /\ Finish(c, PyFalse, "PersistenceError", 0)
    /\ UNCHANGED <<exclusion, unique_email, metrics, members, maint, avail, sessions, call, local, pre>>

\* conn.commit(); return True
RegCommit(c) ==
    /\ pc[c] = "reg_commit"
    /\ regs' = regs (+) SetToBag({pend[c][1].row})
    /\ pend' = [pend EXCEPT ![c] = NoWrite]
    /\ Finish(c, PyTrue, "Ok", 0)
    /\ UNCHANGED <<exclusion, unique_email, metrics, members, maint, avail, sessions, call, local, pre>>

\* ------------------------------------------------------ register_member
\* The identifiers of the rows of rows holding email e.
IdsOfEmail(rows, e) == {i \in DOMAIN rows : rows[i].email = e}

\* The table is let grow to MaxMembers rows; a call with an email it holds
\* adds none.
MemberCall(c, emails, names, dobs, genders, phones) ==
    \E e \in emails, n \in names, d \in dobs, g \in genders, ph \in phones :
        /\ Len(members) < MaxMembers \/ IdsOfEmail(members, e) # {}
        /\ Begin(c, [NoCall EXCEPT !.op = "register_member", !.email = e,
                                   !.full_name = n, !.date_of_birth = d,
                                   !.gender = g, !.phone = ph],
                 "member_select")

\* The SELECT that never matches: every call goes on to the INSERT.
MemberSelectNeverFinds(c) ==
    /\ pc[c] = "member_select"
    /\ Step(c, "member_insert")
    /\ UNCHANGED <<exclusion, unique_email, metrics, members, maint, avail, sessions, regs, call, local, pend, pre>>

\* SELECT id FROM members WHERE email = %s, and the test of cur.fetchone():
\* with a row the function returns its id, without commit or rollback.  The
\* query has no ORDER BY: of several rows any one may come first.
MemberSelect(c) ==
    /\ pc[c] = "member_select"
    /\ IF IdsOfEmail(members, call[c].email) # {}
       THEN \E i \in IdsOfEmail(members, call[c].email) :
               Finish(c, PyInt(i), "Ok", 1)
       ELSE Step(c, "member_insert")
    /\ UNCHANGED <<exclusion, unique_email, metrics, members, maint, avail, sessions, regs, call, local, pend, pre>>

\* INSERT INTO members ... RETURNING id, outside any try: an error leaves
\* the function.  With members.email unique the statement waits while
\* another connection holds an uncommitted row with the same email.
MemberInsert(c) ==
    /\ pc[c] = "member_insert"
    /\ LET a == call[c]
           row == MemberRow(a.email, a.full_name, a.date_of_birth, a.gender, a.phone)
       IN
       /\ ~(unique_email /\ \E o \in OthersPending(c, "members") : o.email = a.email)
       /\ IF unique_email /\ IdsOfEmail(members, a.email) # {}
          THEN Raise(c, "UniqueViolation")
          ELSE /\ Step(c, "member_commit")
               /\ pend' = [pend EXCEPT ![c] =
                             <<[tbl |-> "members", id |-> NULL, row |-> row]>>]
    /\ UNCHANGED <<exclusion, unique_email, metrics, members, maint, avail, sessions, regs, call, local, pre>>

\* register_member returning the new id with the conn.commit() left out:
\* the inserted row stays uncommitted on the connection.
MemberCommitDeferred(c) ==
    /\ pc[c] = "member_commit"
    /\ Finish(c, PyInt(Len(members) + 1), "Ok", 0)
    /\ UNCHANGED <<exclusion, unique_email, metrics, members, maint, avail, sessions, regs, call, local, pend, pre>>

\* conn.commit(); return member_id
MemberCommit(c) ==
    /\ pc[c] = "member_commit"
    /\ members' = Append(members, pend[c][1].row)
    /\ pend' = [pend EXCEPT ![c] = NoWrite]
    /\ Finish(c, PyInt(Len(members) + 1), "Ok", 0)
    /\ UNCHANGED <<exclusion, unique_email, metrics, maint, avail, sessions, regs, call, local, pre>>

\* ------------------------------------------------ update_member_profile
ProfileCall(c, ids, names, dobs, genders, phones, emails) ==
    \E i \in ids, n \in names, d \in dobs, g \in genders, ph \in phones,
       e \in emails :
        Begin(c, [NoCall EXCEPT !.op = "update_member_profile",
                                !.member_id = i, !.full_name = n,
                                !.date_of_birth = d, !.gender = g,
                                !.phone = ph, !.email = e],
              "profile_exec")

\* `if not fields`: no argument was given a value.
NoFields(a) ==
    /\ a.full_name = NULL
    /\ a.date_of_birth = NULL
    /\ a.gender = NULL
    /\ a.phone = NULL
    /\ a.email = NULL

\* The statement built with every column in its SET list: an argument left
\* None is written as NULL.
PatchedEveryColumn(row, a) ==
    MemberRow(a.email, a.full_name, a.date_of_birth, a.gender, a.phone)

\* The row after UPDATE members SET <the fields given> WHERE id = %s: one
\* `column = %s` per argument that is not None.
Patched(row, a) ==
    [full_name |-> IF a.full_name # NULL THEN a.full_name ELSE row.full_name,
     date_of_birth |-> IF a.date_of_birth # NULL THEN a.date_of_birth
                       ELSE row.date_of_birth,
     gender |-> IF a.gender # NULL THEN a.gender ELSE row.gender,
     phone |-> IF a.phone # NULL THEN a.phone ELSE row.phone,
     email |-> IF a.email # NULL THEN a.email ELSE row.email]

\* The field list, the early `return False`, and the UPDATE with the test
\* of cur.rowcount and the except clause.  The UPDATE waits while another
\* connection holds an uncommitted write of the same row or, with
\* members.email unique, of a row with the email it sets.
ProfileExec(c) ==
    /\ pc[c] = "profile_exec"
    /\ LET a == call[c] IN
       IF NoFields(a)
       THEN Finish(c, PyFalse, "NothingToUpdate", 0) /\ UNCHANGED pend
       ELSE /\ \A d \in Conns \ {c} :
                 ~(/\ pend[d] # NoWrite
                   /\ pend[d][1].tbl = "members"
                   /\ \/ pend[d][1].id = a.member_id
                      \/ (unique_email /\ a.email # NULL
                            /\ pend[d][1].row.email = a.email))
            /\ IF a.member_id \notin DOMAIN members
               THEN Finish(c, PyFalse, "NotFound", 1) /\ Rollback(c)
               ELSE IF /\ unique_email
                       /\ a.email # NULL
                       /\ IdsOfEmail(members, a.email) \ {a.member_id} # {}
               THEN Finish(c, PyFalse, "PersistenceError", 1) /\ Rollback(c)
               ELSE /\ Step(c, "profile_commit")
                    /\ pend' = [pend EXCEPT ![c] =
                          <<[tbl |-> "members", id |-> a.member_id,
                             row |-> Patched(members[a.member_id], a)]>>]
    /\ UNCHANGED <<exclusion, unique_email, metrics, members, maint, avail, sessions, regs, call, local, pre>>

\* conn.commit(); return True
ProfileCommit(c) ==
    /\ pc[c] = "profile_commit"
    /\ members' = [members EXCEPT ![pend[c][1].id] = pend[c][1].row]
    /\ pend' = [pend EXCEPT ![c] = NoWrite]
    /\ Finish(c, PyTrue, "Ok", 0)
    /\ UNCHANGED <<exclusion, unique_email, metrics, maint, avail, sessions, regs, call, local, pre>>

\* ----------------------------------------------------- log_health_metric
MetricCall(c, mids, types, values) ==
    \E m \in mids, t \in types, v \in values :
        /\ BagCardinality(metrics) < MaxMetrics
        /\ Begin(c, [NoCall EXCEPT !.op = "log_health_metric", !.member_id = m,
                                   !.metric_type = t, !.metric_value = v],
                 "metric_exec")

\* INSERT INTO health_metrics (member_id, metric_type, metric_value), and
\* the except clause.
MetricExec(c) ==
    /\ pc[c] = "metric_exec"
    /\ LET a == call[c] IN
       IF ~MemberExists(a.member_id)
       THEN Finish(c, PyFalse, "PersistenceError", 1) /\ Rollback(c)
       ELSE /\ Step(c, "metric_commit")
            /\ pend' = [pend EXCEPT ![c] =
                  <<[tbl |-> "health_metrics", id |-> NULL,
                     row |-> [member_id |-> a.member_id,
                              metric_type |-> a.metric_type,
                              metric_value |-> a.metric_value]]>>]
    /\ UNCHANGED <<exclusion, unique_email, metrics, members, maint, avail, sessions, regs, call, local, pre>>

\* conn.commit(); return True
MetricCommit(c) ==
    /\ pc[c] = "metric_commit"
    /\ metrics' = metrics (+) SetToBag({pend[c][1].row})
    /\ pend' = [pend EXCEPT ![c] = NoWrite]
    /\ Finish(c, PyTrue, "Ok", 0)
    /\ UNCHANGED <<exclusion, unique_email, members, maint, avail, sessions, regs, call, local, pre>>

\* --- show_member_dashboard, list_trainers, view_trainer_schedule,
\* --- member_lookup
\* The four options that only read: one SELECT and a printout.
ShowCall(c) ==
    /\ Begin(c, [NoCall EXCEPT !.op = "show"], "show_select")

\* cur.execute(SELECT ...); rows = cur.fetchall(); print; return.  The
\* function neither commits nor rolls back.
ShowSelect(c) ==
    /\ pc[c] = "show_select"
    /\ Finish(c, PyNone, "Ok", 1)
    /\ UNCHANGED <<exclusion, unique_email, metrics, members, maint, avail, sessions, regs, call, local, pend, pre>>

\* ------------------------------------------------ report_equipment_issue
ReportCall(c, eids, aids) ==
    \E e \in eids, a \in aids :
        /\ Len(maint) < MaxMaint
        /\ Begin(c, [NoCall EXCEPT !.op = "report_equipment_issue",
                                   !.equipment_id = e, !.admin_id = a,
                                   !.issue_description = 1],
                 "report_exec")

\* The values now() can yield for resolved_at.
Stamps == 1..MaxStamp

\* The row the INSERT stores: it names no status and no resolved_at, and
\* "Status starts as 'reported'".
ReportedRow(a) ==
    [equipment_id |-> a.equipment_id, reported_by_admin |-> a.admin_id,
     issue_description |-> a.issue_description, status |-> "reported",
     resolved_at |-> NULL]

\* INSERT INTO equipment_maintenance ... RETURNING id, status, reported_at,
\* and the except clause.
ReportExec(c) ==
    /\ pc[c] = "report_exec"
    /\ LET a == call[c] IN
       IF ~EquipmentExists(a.equipment_id) \/ ~AdminExists(a.admin_id)
       THEN Finish(c, PyNone, "PersistenceError", 1) /\ Rollback(c)
       ELSE /\ Step(c, "report_commit")
            /\ pend' = [pend EXCEPT ![c] =
                  <<[tbl |-> "equipment_maintenance", id |-> NULL,
                     row |-> ReportedRow(a)]>>]
    /\ UNCHANGED <<exclusion, unique_email, metrics, members, maint, avail, sessions, regs, call, local, pre>>

\* conn.commit(); return row["id"]
ReportCommit(c) ==
    /\ pc[c] = "report_commit"
    /\ maint' = Append(maint, pend[c][1].row)
    /\ pend' = [pend EXCEPT ![c] = NoWrite]
    /\ Finish(c, PyInt(Len(maint) + 1), "Ok", 0)
    /\ UNCHANGED <<exclusion, unique_email, metrics, members, avail, sessions, regs, call, local, pre>>

\* ----------------------------------------------- resolve_equipment_issue
ResolveCall(c, ids) ==
    \E i \in ids :
        Begin(c, [NoCall EXCEPT !.op = "resolve_equipment_issue",
                                !.maintenance_id = i],
              "resolve_exec")

\* WHERE id = %s alone: a resolved record matches too.
OpenRecordAnyStatus(rows, i) == i \in DOMAIN rows

\* WHERE id = %s AND status <> 'resolved'
OpenRecord(rows, i) == i \in DOMAIN rows /\ rows[i].status # "resolved"

\* The UPDATE ... SET status = 'resolved', resolved_at = now() ...
\* RETURNING, the test of the returned row and the except clause.  The
\* UPDATE waits while another connection holds an uncommitted update of the
\* same row, and then looks at the row as committed.
ResolveExec(c) ==
    /\ pc[c] = "resolve_exec"
    /\ LET i == call[c].maintenance_id IN
       /\ \A d \in Conns \ {c} :
             ~(/\ pend[d] # NoWrite
               /\ pend[d][1].tbl = "equipment_maintenance"
               /\ pend[d][1].id = i)
       /\ IF ~OpenRecord(maint, i)
          THEN Finish(c, PyFalse, "NotFound", 1) /\ Rollback(c)
          ELSE \E t \in Stamps :
                 /\ Step(c, "resolve_commit")
                 /\ pend' = [pend EXCEPT ![c] =
                       <<[tbl |-> "equipment_maintenance", id |-> i,
                          row |-> [maint[i] EXCEPT !.status = "resolved",
                                                   !.resolved_at = t]]>>]
    /\ UNCHANGED <<exclusion, unique_email, metrics, members, maint, avail, sessions, regs, call, local, pre>>

\* conn.commit(); return True
ResolveCommit(c) ==
    /\ pc[c] = "resolve_commit"
    /\ maint' = [maint EXCEPT ![pend[c][1].id] = pend[c][1].row]
    /\ pend' = [pend EXCEPT ![c] = NoWrite]
    /\ Finish(c, PyTrue, "Ok", 0)
    /\ UNCHANGED <<exclusion, unique_email, metrics, members, avail, sessions, regs, call, local, pre>>

\* ------------------------------------------------------- specifications
\* No operation has run; excl says whether the store declares the
\* range-exclusion constraints, and the members table holds SeedMembers.
InitWith(excl) ==
    /\ exclusion \in excl
    /\ unique_email = TRUE
    /\ members = SeedMembers
    /\ maint = <<>>
    /\ metrics = EmptyBag
    /\ avail = EmptyBag
    /\ sessions = <<>>
    /\ regs = EmptyBag
    /\ pc = [c \in Conns |-> "menu"]
    /\ call = [c \in Conns |-> NoCall]
    /\ local = [c \in Conns |-> NoLocal]
    /\ pend = [c \in Conns |-> NoWrite]
    /\ ret = [c \in Conns |-> NoRet]
    /\ pre = [c \in Conns |-> NoDb]

Init == InitWith({TRUE})

\* The store with or without the exclusion constraints.
InitAvail == InitWith(BOOLEAN)

\* One CLI process declaring availability for both trainers and for an
\* unknown one.
NextAvail ==
    \/ AvailCall(1, Trainers \cup {3}, Spans)
    \/ AvailSelect(1)
    \/ AvailInsert(1)
    \/ AvailCommit(1)
    \/ Return(1)

SpecAvail == InitAvail /\ [][NextAvail]_vars

\* One CLI process creating and updating class sessions: a known and an
\* unknown class, both trainers, no room or room 1, a known or unknown
\* session to update.
NextBooking ==
    \/ SessCall(1, {1, 3}, Trainers, {NULL, 1}, SessSpans, {NULL}, 0..(MaxSessions + 1))
    \/ SessExec(1)
    \/ SessCommit(1)
    \/ Return(1)

SpecBooking == Init /\ [][NextBooking]_vars

\* One CLI process creating and updating class sessions of both classes,
\* with and without a capacity of their own, and registering the members.
NextRoster ==
    \/ SessCall(1, Classes, {1}, {NULL}, {<<0, 1>>, <<1, 2>>}, {NULL, 1}, 0..MaxSessions)
    \/ SessExec(1)
    \/ SessCommit(1)
    \/ RegCall(1, 1..MaxSessions, Members)
    \/ RegSelect(1)
    \/ RegInsert(1)
    \/ RegCommit(1)
    \/ Return(1)

SpecRoster == Init /\ [][NextRoster]_vars

\* Two CLI processes, each with its own connection, creating sessions of
\* class 2 and registering members 1 and 2 for known and unknown sessions.
NextRace ==
    \E c \in Conns :
        \/ SessCall(c, {2}, {1}, {NULL}, {<<0, 1>>}, {NULL, 1}, {NULL})
        \/ SessExec(c)
        \/ SessCommit(c)
        \/ RegCall(c, 1..(MaxSessions + 1), {1, 2})
        \/ RegSelect(c)
        \/ RegInsert(c)
        \/ RegCommit(c)
        \/ Return(c)

SpecRace == Init /\ [][NextRace]_vars

\* One CLI process using all three operations, with known and unknown
\* trainers, classes, sessions and members.
Next ==
    \/ AvailCall(1, {1, 3}, {<<0, 1>>, <<0, 2>>, <<1, 0>>})
    \/ AvailSelect(1)
    \/ AvailInsert(1)
    \/ AvailCommit(1)
    \/ SessCall(1, {1, 3}, {1}, {NULL}, {<<0, 1>>, <<1, 0>>}, {NULL, 2}, 0..(MaxSessions + 1))
    \/ SessExec(1)
    \/ SessCommit(1)
    \/ RegCall(1, 1..(MaxSessions + 1), {1, 2, 4})
    \/ RegSelect(1)
    \/ RegInsert(1)
    \/ RegCommit(1)
    \/ Return(1)

Spec == Init /\ [][Next]_vars

\* One CLI process creating class sessions of class 1 and rescheduling
\* them, and updating sessions that do not exist, with ranges in the right
\* order and one in the wrong order, over a store with or without the
\* exclusion constraints.
NextReschedule ==
    \/ SessCall(1, {1}, Trainers, {NULL, 1},
                {<<0, 1>>, <<0, 2>>, <<1, 3>>, <<2, 3>>, <<1, 0>>}, {NULL},
                0..(MaxSessions + 1))
    \/ SessExec(1)
    \/ SessCommit(1)
    \/ Return(1)

SpecReschedule == InitAvail /\ [][NextReschedule]_vars

\* A store in which two class sessions have been created: session 1 of
\* class 1 with trainer 1, session 2 of class 2 with trainer 2.
TwoSessions ==
    <<[class_id |-> 1, trainer_id |-> 1, room_id |-> NULL, range |-> <<0, 1>>,
       capacity |-> NULL],
      [class_id |-> 2, trainer_id |-> 2, room_id |-> NULL, range |-> <<0, 1>>,
       capacity |-> NULL]>>

InitParallel ==
    /\ exclusion \in BOOLEAN
    /\ unique_email = TRUE
    /\ members = SeedMembers
    /\ maint = <<>>
    /\ metrics = EmptyBag
    /\ avail = EmptyBag
    /\ sessions = TwoSessions
    /\ regs = EmptyBag
    /\ pc = [c \in Conns |-> "menu"]
    /\ call = [c \in Conns |-> NoCall]
    /\ local = [c \in Conns |-> NoLocal]
    /\ pend = [c \in Conns |-> NoWrite]
    /\ ret = [c \in Conns |-> NoRet]
    /\ pre = [c \in Conns |-> NoDb]

\* Two CLI processes: process c declares availability for trainer c only
\* and registers members for class session c only.
NextParallel ==
    \E c \in Conns :
        \/ AvailCall(c, {c}, {<<0, 2>>, <<1, 3>>, <<2, 1>>})
        \/ AvailSelect(c)
        \/ AvailInsert(c)
        \/ AvailCommit(c)
        \/ RegCall(c, {c}, {1, 2})
        \/ RegSelect(c)
        \/ RegInsert(c)
        \/ RegCommit(c)
        \/ Return(c)

SpecParallel == InitParallel /\ [][NextParallel]_vars

\* The store before any member has registered, with or without
\* members.email declared unique.
InitMembers ==
    /\ exclusion = TRUE
    /\ unique_email \in BOOLEAN
    /\ members = <<>>
    /\ maint = <<>>
    /\ metrics = EmptyBag
    /\ avail = EmptyBag
    /\ sessions = <<>>
    /\ regs = EmptyBag
    /\ pc = [c \in Conns |-> "menu"]
    /\ call = [c \in Conns |-> NoCall]
    /\ local = [c \in Conns |-> NoLocal]
    /\ pend = [c \in Conns |-> NoWrite]
    /\ ret = [c \in Conns |-> NoRet]
    /\ pre = [c \in Conns |-> NoDb]

\* One CLI process registering members under three emails, with and
\* without a date of birth and a phone.
NextRegister ==
    \/ MemberCall(1, {1, 2, 3}, {1}, {NULL, 1}, {NULL}, {NULL, 1})
    \/ MemberSelect(1)
    \/ MemberInsert(1)
    \/ MemberCommit(1)
    \/ Return(1)

SpecRegister == InitMembers /\ [][NextRegister]_vars

\* One CLI process registering members and updating the profile of member
\* 1 and of a member that does not exist, with every choice of the fields
\* given.
NextProfile ==
    \/ MemberCall(1, {1, 2}, {1}, {1}, {NULL}, {NULL})
    \/ MemberSelect(1)
    \/ MemberInsert(1)
    \/ MemberCommit(1)
    \/ ProfileCall(1, {1, MaxMembers + 1}, {NULL, 2}, {NULL, 2}, {NULL, 2},
                   {NULL, 2}, {NULL, 2})
    \/ ProfileExec(1)
    \/ ProfileCommit(1)
    \/ Return(1)

SpecProfile == InitMembers /\ [][NextProfile]_vars

\* Two CLI processes registering the three members for the two class
\* sessions of TwoSessions, whose capacities (1 and 2, the defaults of their
\* classes) no operation changes.
NextOverbook ==
    \E c \in Conns :
        \/ RegCall(c, {1, 2}, Members)
        \/ RegSelect(c)
        \/ RegInsert(c)
        \/ RegCommit(c)
        \/ Return(c)

SpecOverbook == InitParallel /\ [][NextOverbook]_vars

\* Two CLI processes declaring availability for trainer 1, over a store
\* with or without the exclusion constraint.
NextAvailRace ==
    \E c \in Conns :
        \/ AvailCall(c, {1}, {<<0, 2>>, <<1, 3>>, <<2, 3>>})
        \/ AvailSelect(c)
        \/ AvailInsert(c)
        \/ AvailCommit(c)
        \/ Return(c)

SpecAvailRace == InitAvail /\ [][NextAvailRace]_vars

\* One CLI process using every operation modelled, from an empty store:
\* registering members and updating their profile, declaring availability,
\* creating and updating class sessions, registering members for them.
NextProgram ==
    \/ MemberCall(1, {1, 2}, {1}, {NULL}, {NULL}, {NULL})
    \/ MemberSelect(1)
    \/ MemberInsert(1)
    \/ MemberCommit(1)
    \/ ProfileCall(1, {1, MaxMembers + 1}, {NULL, 2}, {NULL}, {NULL}, {NULL}, {NULL, 2})
    \/ ProfileExec(1)
    \/ ProfileCommit(1)
    \/ AvailCall(1, {1, 3}, {<<0, 1>>, <<1, 2>>, <<0, 2>>, <<1, 0>>})
    \/ AvailSelect(1)
    \/ AvailInsert(1)
    \/ AvailCommit(1)
    \/ SessCall(1, {1}, {1}, {NULL}, {<<0, 1>>}, {NULL, 2}, {NULL, 1})
    \/ SessExec(1)
    \/ SessCommit(1)
    \/ RegCall(1, {1}, {1, 2})
    \/ RegSelect(1)
    \/ RegInsert(1)
    \/ RegCommit(1)
    \/ Return(1)

SpecProgram == InitMembers /\ [][NextProgram]_vars

\* Two CLI processes reporting issues on equipment 1 and on equipment that
\* does not exist, and resolving records that exist and one that does not.
NextMaintenance ==
    \E c \in Conns :
        \/ ReportCall(c, {1, 2}, {1})
        \/ ReportExec(c)
        \/ ReportCommit(c)
        \/ ResolveCall(c, 1..(MaxMaint + 1))
        \/ ResolveExec(c)
        \/ ResolveCommit(c)
        \/ Return(c)

SpecMaintenance == Init /\ [][NextMaintenance]_vars

\* One CLI process going through every option of the three menus on one
\* connection, from an empty store.
NextMenus ==
    \/ MemberCall(1, {1}, {1}, {NULL}, {NULL}, {NULL})
    \/ MemberSelect(1)
    \/ MemberInsert(1)
    \/ MemberCommit(1)
    \/ ProfileCall(1, {1, MaxMembers + 1}, {NULL, 2}, {NULL}, {NULL}, {NULL}, {NULL})
    \/ ProfileExec(1)
    \/ ProfileCommit(1)
    \/ MetricCall(1, {1, MaxMembers + 1}, {1}, {1})
    \/ MetricExec(1)
    \/ MetricCommit(1)
    \/ ShowCall(1)
    \/ ShowSelect(1)
    \/ AvailCall(1, {1}, {<<0, 1>>, <<0, 2>>, <<1, 0>>})
    \/ AvailSelect(1)
    \/ AvailInsert(1)
    \/ AvailCommit(1)
    \/ SessCall(1, {1}, {1}, {NULL}, {<<0, 1>>}, {2}, {NULL, 1, MaxSessions + 1})
    \/ SessExec(1)
    \/ SessCommit(1)
    \/ RegCall(1, {1, MaxSessions + 1}, {1})
    \/ RegSelect(1)
    \/ RegInsert(1)
    \/ RegCommit(1)
    \/ ReportCall(1, {1, 2}, {1})
    \/ ReportExec(1)
    \/ ReportCommit(1)
    \/ ResolveCall(1, {1, MaxMaint + 1})
    \/ ResolveExec(1)
    \/ ResolveCommit(1)
    \/ Return(1)

SpecMenus == InitMembers /\ [][NextMenus]_vars

\* ================================================================ claims
\* The call on connection c has ended: it returned, or an exception left it.
Finished(c) == pc[c] \in {"returned", "raised"}

\* ... and it did not succeed.
Failed(c) == Finished(c) /\ ret[c].kind # "Ok"

\* The ranges of two stored rows overlap, as the half-open test of two
\* ranges with bounds: a.start < b.end and b.start < a.end.
HalfOpenOverlap(a, b) ==
    /\ a # EmptyRange
    /\ b # EmptyRange
    /\ a[1] < b[2]
    /\ b[1] < a[2]

\* C1: in every committed state every class session has at most as many
\* registrations as its effective capacity.
CapacityRespected ==
    \A sid \in DOMAIN sessions :
        RegCount(regs, sid) <= EffectiveCapacity(sessions[sid])

\* C2: no (class_session_id, member_id) is stored in more than one
\* registration row, whatever the interleaving of the two connections.
RegistrationUnique ==
    \A r \in BagToSet(regs) : CopiesIn(r, regs) = 1

\* Both connections registered the same member for the same session, both
\* read a count of 0 (so neither had committed when the other checked the
\* capacity), one was accepted and the other rejected as a duplicate.
RaceDuplicateRejected ==
    /\ pc[1] = "returned"
    /\ pc[2] = "returned"
    /\ call[1] = call[2]
    /\ call[1].op = "register_member_for_class"
    /\ local[1].current_count = 0
    /\ local[2].current_count = 0
    /\ local[1].max_capacity >= 1
    /\ ret[1].kind = "Ok"
    /\ ret[2].kind = "AlreadyRegistered"
    /\ CopiesIn([class_session_id |-> call[1].session_id,
                 member_id |-> call[1].member_id], regs) = 1

\* C3: no two stored availability rows of one trainer overlap.
NoAvailabilityOverlap ==
    \A a \in BagToSet(avail), b \in BagToSet(avail) :
        (a.trainer_id = b.trainer_id /\ (a # b \/ CopiesIn(a, avail) > 1))
            => ~HalfOpenOverlap(a.range, b.range)

\* One trainer holds two rows with bounds, the second just accepted.
TwoRangesOfOneTrainer ==
    /\ pc[1] = "returned"
    /\ call[1].op = "set_trainer_availability"
    /\ ret[1].kind = "Ok"
    /\ \E a \in BagToSet(avail), b \in BagToSet(avail) :
          /\ a # b
          /\ a.trainer_id = b.trainer_id
          /\ a.range # EmptyRange
          /\ b.range # EmptyRange

\* The class session the call on c wrote overlaps, in the tables the call
\* started from, another session of the same trainer or of the same room.
WouldDoubleBook(c) ==
    LET a == call[c] IN
    \E i \in DOMAIN pre[c].sessions :
        /\ i # a.session_id
        /\ HalfOpenOverlap(pre[c].sessions[i].range, <<a.start_ts, a.end_ts>>)
        /\ \/ pre[c].sessions[i].trainer_id = a.trainer_id
           \/ (a.room_id # NULL /\ pre[c].sessions[i].room_id = a.room_id)

\* C4: no two class sessions of one trainer, and none of one room, overlap,
\* and a call that would make two overlap fails as TrainerDoubleBooked or
\* RoomDoubleBooked.
SessionsNeverDoubleBooked ==
    /\ \A i \in DOMAIN sessions, j \in DOMAIN sessions :
          (i # j /\ HalfOpenOverlap(sessions[i].range, sessions[j].range))
             => /\ sessions[i].trainer_id # sessions[j].trainer_id
                /\ (sessions[i].room_id = NULL
                      \/ sessions[i].room_id # sessions[j].room_id)
    /\ \A c \in Conns :
          (/\ Finished(c)
           /\ call[c].op = "create_or_update_class_session"
           /\ call[c].start_ts < call[c].end_ts
           /\ WouldDoubleBook(c))
             => ret[c].kind \in {"TrainerDoubleBooked", "RoomDoubleBooked"}

\* C5: a registration by a member the session already holds fails as
\* AlreadyRegistered, also when the session is full.
DuplicateIsAlreadyRegistered ==
    \A c \in Conns :
        (/\ Finished(c)
         /\ call[c].op = "register_member_for_class"
         /\ UniqueViolation(pre[c].regs, call[c].session_id, call[c].member_id))
           => ret[c].kind = "AlreadyRegistered"

\* C6: a registration for an existing session is rejected as SessionFull
\* exactly when the session held at least effective_capacity registrations
\* when it was called, and then writes nothing; below the capacity a
\* registration of a member not yet registered succeeds and adds exactly its
\* row (so k registrations of distinct members fill a session of capacity k,
\* and every further one is rejected).
FullExactlyAtCapacity ==
    \A c \in {1} :
        (/\ pc[c] = "returned"
         /\ call[c].op = "register_member_for_class"
         /\ call[c].session_id \in DOMAIN pre[c].sessions)
           => LET sid == call[c].session_id
                  mid == call[c].member_id
                  cnt == RegCount(pre[c].regs, sid)
                  cap == EffectiveCapacity(pre[c].sessions[sid])
              IN /\ (ret[c].kind = "SessionFull") <=> (cnt >= cap)
                 /\ cnt >= cap => (Db = pre[c] /\ ret[c].val = PyFalse)
                 /\ (/\ cnt < cap
                     /\ mid \in Members
                     /\ ~UniqueViolation(pre[c].regs, sid, mid))
                       => /\ ret[c].kind = "Ok"
                          /\ ret[c].val = PyTrue
                          /\ regs = pre[c].regs (+) SetToBag(
                                {[class_session_id |-> sid, member_id |-> mid]})
                          /\ sessions = pre[c].sessions

\* A session of effective capacity 2 holds two registrations, and a third
\* member has just been turned away as SessionFull.
ThirdMemberTurnedAway ==
    /\ pc[1] = "returned"
    /\ call[1].op = "register_member_for_class"
    /\ ret[1].kind = "SessionFull"
    /\ call[1].session_id \in DOMAIN sessions
    /\ EffectiveCapacity(sessions[call[1].session_id]) = 2
    /\ RegCount(regs, call[1].session_id) = 2
    /\ ~UniqueViolation(regs, call[1].session_id, call[1].member_id)

\* C7: set_trainer_availability and create_or_update_class_session called
\* with start >= end fail as InvalidRange without executing a statement,
\* and write nothing.
InvalidRangeRejectedFirst ==
    \A c \in Conns :
        (/\ Finished(c)
         /\ call[c].op \in {"set_trainer_availability",
                            "create_or_update_class_session"}
         /\ call[c].start_ts >= call[c].end_ts)
           => /\ ret[c].kind = "InvalidRange"
              /\ ret[c].io = 0
              /\ Db = pre[c]

\* C8: set_trainer_availability for an existing trainer with start < end
\* succeeds, adding its row, exactly when no stored range of that trainer
\* overlaps the new one (touching ranges and other trainers' ranges do not
\* count), and otherwise is rejected as OverlappingAvailability.
AcceptedIffNoOverlap ==
    \A c \in {1} :
        (/\ Finished(c)
         /\ call[c].op = "set_trainer_availability"
         /\ call[c].trainer_id \in Trainers
         /\ call[c].start_ts < call[c].end_ts)
           => LET a == call[c]
                  hit == \E r \in BagToSet(pre[c].avail) :
                            /\ r.trainer_id = a.trainer_id
                            /\ HalfOpenOverlap(r.range, <<a.start_ts, a.end_ts>>)
              IN /\ ~hit => /\ ret[c].kind = "Ok"
                            /\ ret[c].val = PyTrue
                            /\ avail = pre[c].avail (+) SetToBag(
                                  {[trainer_id |-> a.trainer_id,
                                    range |-> <<a.start_ts, a.end_ts>>,
                                    note |-> a.note]})
                 /\ hit => /\ ret[c].kind = "OverlappingAvailability"
                           /\ ret[c].val = PyFalse
                           /\ avail = pre[c].avail

\* A range starting where a stored range of the same trainer ends has just
\* been accepted, while another trainer holds a range it overlaps.
TouchingRangeAccepted ==
    /\ pc[1] = "returned"
    /\ call[1].op = "set_trainer_availability"
    /\ ret[1].kind = "Ok"
    /\ \E r \in BagToSet(pre[1].avail) :
          /\ r.trainer_id = call[1].trainer_id
          /\ r.range # EmptyRange
          /\ r.range[2] = call[1].start_ts
    /\ \E r \in BagToSet(pre[1].avail) :
          /\ r.trainer_id # call[1].trainer_id
          /\ HalfOpenOverlap(r.range, <<call[1].start_ts, call[1].end_ts>>)

\* C9: a call that fails leaves every table as it was when the call began
\* and leaves no uncommitted write on its connection.
FailureLeavesStoreUntouched ==
    \A c \in {1} :
        Failed(c) => (Db = pre[c] /\ pend[c] = NoWrite)

\* A duplicate registration has just been rejected, after the INSERT was
\* sent and rolled back, over a store that holds rows.
DuplicateRolledBack ==
    /\ pc[1] = "returned"
    /\ ret[1].kind = "AlreadyRegistered"
    /\ ret[1].io = 2
    /\ regs # EmptyBag
    /\ avail # EmptyBag

\* C10: two calls of one operation that fail for different reasons return
\* different values.
FailureKindsDistinguishable ==
    \A c \in Conns, d \in Conns :
        (/\ pc[c] = "returned"
         /\ pc[d] = "returned"
         /\ call[c].op = call[d].op
         /\ ret[c].kind # "Ok"
         /\ ret[d].kind # "Ok"
         /\ ret[c].kind # ret[d].kind)
           => ret[c].val # ret[d].val

\* The call on c names a trainer, class, room, session or member that the
\* tables it started from do not hold.
NamesUnknownId(c) ==
    LET a == call[c] IN
    \/ /\ a.op = "set_trainer_availability"
       /\ a.trainer_id \notin Trainers
    \/ /\ a.op = "create_or_update_class_session"
       /\ \/ a.class_id \notin Classes
          \/ a.trainer_id \notin Trainers
          \/ (a.room_id # NULL /\ a.room_id \notin Rooms)
          \/ (a.session_id # NULL /\ a.session_id \notin DOMAIN pre[c].sessions)
    \/ /\ a.op = "register_member_for_class"
       /\ \/ a.session_id \notin DOMAIN pre[c].sessions
          \/ a.member_id \notin DOMAIN pre[c].members

\* C11: a call with a valid range naming an identifier that does not
\* resolve returns (it does not raise), fails as NotFound and leaves every
\* table as it was.
UnknownIdIsNotFound ==
    \A c \in Conns :
        (/\ Finished(c)
         /\ NamesUnknownId(c)
         /\ call[c].op \in {"set_trainer_availability",
                            "create_or_update_class_session"}
               => call[c].start_ts < call[c].end_ts)
           => /\ pc[c] = "returned"
              /\ ret[c].kind = "NotFound"
              /\ Db = pre[c]

\* C12: create_or_update_class_session given a session_id that matches no
\* class session returns None, as NotFound when the range is one the store
\* accepts, and inserts nothing: class_sessions and every other table are as
\* they were.
UpdateOfMissingSessionNotFound ==
    \A c \in Conns :
        (/\ Finished(c)
         /\ call[c].op = "create_or_update_class_session"
         /\ call[c].session_id # NULL
         /\ call[c].session_id \notin DOMAIN pre[c].sessions)
           => /\ pc[c] = "returned"
              /\ ret[c].val = PyNone
              /\ call[c].start_ts <= call[c].end_ts => ret[c].kind = "NotFound"
              /\ sessions = pre[c].sessions
              /\ Db = pre[c]

\* An update naming the identifier just past the last session has been
\* answered NotFound, with sessions stored and every other argument valid.
MissingSessionAnswered ==
    /\ pc[1] = "returned"
    /\ call[1].op = "create_or_update_class_session"
    /\ ret[1].kind = "NotFound"
    /\ sessions # <<>>
    /\ call[1].session_id = Len(sessions) + 1
    /\ call[1].start_ts < call[1].end_ts

\* Another session than the one the call on c updates, held by the call's
\* trainer or room, overlaps the call's range in the tables it started from.
OtherSessionConflicts(c) ==
    LET a == call[c] IN
    \E i \in DOMAIN pre[c].sessions :
        /\ i # a.session_id
        /\ HalfOpenOverlap(pre[c].sessions[i].range, <<a.start_ts, a.end_ts>>)
        /\ \/ pre[c].sessions[i].trainer_id = a.trainer_id
           \/ (a.room_id # NULL /\ pre[c].sessions[i].room_id = a.room_id)

\* C13: an update that keeps a session's trainer and room and gives it a
\* range equal to, or overlapping, its current one succeeds when no other
\* session of that trainer or room overlaps the new range: it returns the
\* session_id and the row holds the new values.
RescheduleIgnoresOwnRow ==
    \A c \in Conns :
        (/\ Finished(c)
         /\ call[c].op = "create_or_update_class_session"
         /\ call[c].session_id \in DOMAIN pre[c].sessions
         /\ call[c].class_id \in Classes
         /\ call[c].start_ts < call[c].end_ts
         /\ call[c].trainer_id = pre[c].sessions[call[c].session_id].trainer_id
         /\ call[c].room_id = pre[c].sessions[call[c].session_id].room_id
         /\ HalfOpenOverlap(pre[c].sessions[call[c].session_id].range,
                            <<call[c].start_ts, call[c].end_ts>>)
         /\ ~OtherSessionConflicts(c))
           => /\ pc[c] = "returned"
              /\ ret[c].kind = "Ok"
              /\ ret[c].val = PyInt(call[c].session_id)
              /\ sessions = [pre[c].sessions EXCEPT ![call[c].session_id] =
                    [class_id |-> call[c].class_id,
                     trainer_id |-> call[c].trainer_id,
                     room_id |-> call[c].room_id,
                     range |-> <<call[c].start_ts, call[c].end_ts>>,
                     capacity |-> call[c].capacity]]

\* A session was moved to a range that overlaps the one it had, while its
\* trainer holds another session, and the update was accepted.
ShiftedOverOwnRange ==
    /\ pc[1] = "returned"
    /\ call[1].op = "create_or_update_class_session"
    /\ ret[1].kind = "Ok"
    /\ call[1].session_id \in DOMAIN pre[1].sessions
    /\ LET old == pre[1].sessions[call[1].session_id] IN
       /\ old.trainer_id = call[1].trainer_id
       /\ old.room_id = call[1].room_id
       /\ old.room_id # NULL
       /\ old.range # <<call[1].start_ts, call[1].end_ts>>
       /\ HalfOpenOverlap(old.range, <<call[1].start_ts, call[1].end_ts>>)
    /\ \E i \in DOMAIN sessions :
          /\ i # call[1].session_id
          /\ sessions[i].trainer_id = call[1].trainer_id

\* A session's own capacity when it has one, its class's default otherwise.
OwnOrClassDefault(s) ==
    IF s.capacity = NULL THEN default_capacity[s.class_id] ELSE s.capacity

\* C14: the limit a registration is compared with is the session's own
\* capacity, or without one the default of its class, as the store holds
\* them when the registration is called, whatever earlier calls read.
CapacityReadAtCall ==
    \A c \in {1} :
        (/\ call[c].op = "register_member_for_class"
         /\ pc[c] \in {"reg_insert", "reg_commit", "returned"}
         /\ call[c].session_id \in DOMAIN pre[c].sessions)
           => LET now == pre[c].sessions[call[c].session_id] IN
              /\ local[c].max_capacity = OwnOrClassDefault(now)
              /\ local[c].current_count = RegCount(pre[c].regs, call[c].session_id)
              /\ pc[c] = "returned" =>
                    ((ret[c].kind = "SessionFull")
                        <=> (local[c].current_count >= OwnOrClassDefault(now)))

\* A session that took two registrations under a limit of 2 was then given
\* class 1 and no capacity of its own, and the next registration was
\* compared with that class's default of 1.
ComparedWithNewClassDefault ==
    /\ pc[1] = "returned"
    /\ call[1].op = "register_member_for_class"
    /\ ret[1].kind = "SessionFull"
    /\ call[1].session_id \in DOMAIN sessions
    /\ sessions[call[1].session_id].capacity = NULL
    /\ sessions[call[1].session_id].class_id = 1
    /\ local[1].max_capacity = 1
    /\ local[1].current_count = 2

\* The availability rows of trainer t in a bag of rows.
AvailOf(rows, t) ==
    [r \in {x \in BagToSet(rows) : x.trainer_id = t} |-> rows[r]]

\* The registrations of class session sid in a bag of rows.
RegsOf(rows, sid) ==
    [r \in {x \in BagToSet(rows) : x.class_session_id = sid} |-> rows[r]]

\* What set_trainer_availability(t, s, e) answers when it runs alone over
\* the rows mine of an existing trainer t.
AvailAlone(mine, s, e) ==
    IF s > e THEN "DataError"
    ELSE IF \E r \in BagToSet(mine) : s < e /\ HalfOpenOverlap(r.range, <<s, e>>)
    THEN "OverlappingAvailability"
    ELSE "Ok"

\* What register_member_for_class(sid, m) answers when it runs alone over
\* the session row and the registrations mine of that session.
RegAlone(session, mine, sid, m) ==
    IF BagCardinality(mine) >= OwnOrClassDefault(session) THEN "SessionFull"
    ELSE IF [class_session_id |-> sid, member_id |-> m] \in BagToSet(mine)
    THEN "AlreadyRegistered"
    ELSE "Ok"

\* C15: with each process on a trainer and a class session of its own, a
\* call ends as it would running alone over its trainer's or its session's
\* rows, and leaves those rows as it would alone, whatever the other
\* process did between its statements.
ParallelCallsIndependent ==
    \A c \in Conns :
        Finished(c) =>
            LET a == call[c] IN
            /\ a.op = "set_trainer_availability" =>
                  LET mine == AvailOf(pre[c].avail, a.trainer_id)
                      kind == AvailAlone(mine, a.start_ts, a.end_ts)
                  IN /\ ret[c].kind = kind
                     /\ AvailOf(avail, a.trainer_id) =
                           IF kind = "Ok"
                           THEN mine (+) SetToBag({[trainer_id |-> a.trainer_id,
                                                    range |-> <<a.start_ts, a.end_ts>>,
                                                    note |-> a.note]})
                           ELSE mine
            /\ a.op = "register_member_for_class" =>
                  LET mine == RegsOf(pre[c].regs, a.session_id)
                      kind == RegAlone(pre[c].sessions[a.session_id], mine,
                                       a.session_id, a.member_id)
                  IN /\ ret[c].kind = kind
                     /\ RegsOf(regs, a.session_id) =
                           IF kind = "Ok"
                           THEN mine (+) SetToBag({[class_session_id |-> a.session_id,
                                                    member_id |-> a.member_id]})
                           ELSE mine

\* Both processes began over the same table, each declaring for its own
\* trainer a range that overlaps the other's, and both were accepted.
BothTrainersAccepted ==
    /\ pc[1] = "returned"
    /\ pc[2] = "returned"
    /\ call[1].op = "set_trainer_availability"
    /\ call[2].op = "set_trainer_availability"
    /\ pre[1].avail = pre[2].avail
    /\ ret[1].kind = "Ok"
    /\ ret[2].kind = "Ok"
    /\ HalfOpenOverlap(<<call[1].start_ts, call[1].end_ts>>,
                       <<call[2].start_ts, call[2].end_ts>>)

\* C16: no two members hold the same email; register_member with an email
\* a member holds returns that member's id and leaves every table as it
\* was, and with a new email returns the id of the one row it adds; so
\* every call returns the id of the only member holding its email.
OneMemberPerEmail ==
    /\ \A i \in DOMAIN members, j \in DOMAIN members :
          members[i].email = members[j].email => i = j
    /\ \A c \in {1} :
          (Finished(c) /\ call[c].op = "register_member")
             => LET known == {i \in DOMAIN pre[c].members :
                                 pre[c].members[i].email = call[c].email}
                IN /\ pc[c] = "returned"
                   /\ ret[c].val.tag = "int"
                   /\ ret[c].val.v \in DOMAIN members
                   /\ members[ret[c].val.v].email = call[c].email
                   /\ known # {} => (ret[c].val.v \in known /\ Db = pre[c])
                   /\ known = {} =>
                         /\ ret[c].val.v = Len(pre[c].members) + 1
                         /\ Len(members) = Len(pre[c].members) + 1
                         /\ \A i \in DOMAIN pre[c].members :
                               members[i] = pre[c].members[i]

\* register_member was called with the email of member 1 and a date of
\* birth and phone that member does not have: it answered 1 after the
\* SELECT alone, and the row still holds no date of birth and no phone.
ExistingMemberReturned ==
    /\ pc[1] = "returned"
    /\ call[1].op = "register_member"
    /\ ret[1].val = PyInt(1)
    /\ ret[1].io = 1
    /\ Len(members) = 2
    /\ call[1].date_of_birth # NULL
    /\ call[1].phone # NULL
    /\ members[1].date_of_birth = NULL
    /\ members[1].phone = NULL

\* The value a field holding old has after an update given v for it.
FieldAfter(old, v) == IF v = NULL THEN old ELSE v

\* C20: update_member_profile with no field given returns False without
\* sending a statement; with an id no member has it returns False; when it
\* returns True the member's row holds the value given for each field given
\* and its old value for each field not given, and every other row and
\* table is as it was; whenever it returns False every table is as it was.
ProfileUpdateExact ==
    \A c \in {1} :
        (Finished(c) /\ call[c].op = "update_member_profile")
           => LET a == call[c]
                  old == pre[c].members
                  none == /\ a.full_name = NULL
                          /\ a.date_of_birth = NULL
                          /\ a.gender = NULL
                          /\ a.phone = NULL
                          /\ a.email = NULL
                  clash == /\ a.email # NULL
                           /\ \E j \in DOMAIN old :
                                 j # a.member_id /\ old[j].email = a.email
              IN /\ pc[c] = "returned"
                 /\ ret[c].val \in {PyTrue, PyFalse}
                 /\ none => (ret[c].val = PyFalse /\ ret[c].io = 0)
                 /\ a.member_id \notin DOMAIN old => ret[c].val = PyFalse
                 /\ ret[c].val = PyFalse => Db = pre[c]
                 /\ (~none /\ a.member_id \in DOMAIN old /\ ~clash)
                       => ret[c].val = PyTrue
                 /\ ret[c].val = PyTrue =>
                       /\ a.member_id \in DOMAIN old
                       /\ DOMAIN members = DOMAIN old
                       /\ \A j \in DOMAIN old \ {a.member_id} : members[j] = old[j]
                       /\ LET was == old[a.member_id]
                              is == members[a.member_id]
                          IN /\ is.full_name = FieldAfter(was.full_name, a.full_name)
                             /\ is.date_of_birth =
                                   FieldAfter(was.date_of_birth, a.date_of_birth)
                             /\ is.gender = FieldAfter(was.gender, a.gender)
                             /\ is.phone = FieldAfter(was.phone, a.phone)
                             /\ is.email = FieldAfter(was.email, a.email)
                       /\ [Db EXCEPT !.members = old] = pre[c]

\* Member 1, with a name and a date of birth stored, was given a new phone
\* and gender only, beside a second member: the update returned True.
PhoneAndGenderOnly ==
    /\ pc[1] = "returned"
    /\ call[1].op = "update_member_profile"
    /\ ret[1].val = PyTrue
    /\ call[1].member_id = 1
    /\ call[1].full_name = NULL
    /\ call[1].date_of_birth = NULL
    /\ call[1].email = NULL
    /\ call[1].gender # NULL
    /\ call[1].phone # NULL
    /\ pre[1].members[1].full_name # NULL
    /\ pre[1].members[1].date_of_birth # NULL
    /\ pre[1].members[1].gender = NULL
    /\ Len(members) = 2

\* C17: with N processes registering members (N = the number of
\* connections), a call that read a count below the capacity goes on to its
\* INSERT and is never answered SessionFull, whatever was committed since:
\* it is accepted unless its member is registered already, and the member
\* is registered when it returns.  So a session can hold more registrations
\* than its capacity c; it never holds more than c + N - 1.
OverbookingBounded ==
    /\ \A sid \in DOMAIN sessions :
          RegCount(regs, sid) <=
             OwnOrClassDefault(sessions[sid]) + Cardinality(Conns) - 1
    /\ \A c \in Conns :
          (/\ pc[c] = "returned"
           /\ call[c].op = "register_member_for_class"
           /\ call[c].session_id \in DOMAIN sessions)
             => /\ (ret[c].kind = "SessionFull")
                      <=> (local[c].current_count >= local[c].max_capacity)
                /\ local[c].current_count < local[c].max_capacity
                      => /\ ret[c].kind \in {"Ok", "AlreadyRegistered"}
                         /\ CopiesIn([class_session_id |-> call[c].session_id,
                                      member_id |-> call[c].member_id], regs) = 1

\* Two members registered for session 1, of capacity 1, from two processes
\* that both read a count of 0: both were accepted and the session holds 2.
OverbookedByOne ==
    /\ pc[1] = "returned"
    /\ pc[2] = "returned"
    /\ call[1].op = "register_member_for_class"
    /\ call[2].op = "register_member_for_class"
    /\ call[1].session_id = 1
    /\ call[2].session_id = 1
    /\ call[1].member_id # call[2].member_id
    /\ local[1] = [max_capacity |-> 1, current_count |-> 0]
    /\ local[2] = [max_capacity |-> 1, current_count |-> 0]
    /\ ret[1].kind = "Ok"
    /\ ret[2].kind = "Ok"
    /\ RegCount(regs, 1) = 2

\* The calls on c and d declared overlapping ranges for one trainer and
\* both passed the overlap query: each ran its SELECT before the other
\* committed.
BothPassedTheQuery(c, d) ==
    /\ c # d
    /\ Finished(c)
    /\ Finished(d)
    /\ call[c].op = "set_trainer_availability"
    /\ call[d].op = "set_trainer_availability"
    /\ call[c].trainer_id = call[d].trainer_id
    /\ HalfOpenOverlap(<<call[c].start_ts, call[c].end_ts>>,
                       <<call[d].start_ts, call[d].end_ts>>)
    /\ ret[c].io = 2
    /\ ret[d].io = 2

\* C18: when two calls for one trainer with overlapping ranges both pass
\* the overlap query, the store decides.  With the exclusion constraint
\* exactly one of them commits its row, the other ends on the constraint's
\* error, and no two stored ranges of a trainer ever overlap; without it
\* both return True and both overlapping rows are stored.
RaceLeftToTheStore ==
    /\ exclusion =>
          \A a \in BagToSet(avail), b \in BagToSet(avail) :
              (a.trainer_id = b.trainer_id /\ HalfOpenOverlap(a.range, b.range))
                 => (a = b /\ CopiesIn(a, avail) = 1)
    /\ \A c \in Conns, d \in Conns :
          BothPassedTheQuery(c, d) =>
             LET rowc == [trainer_id |-> call[c].trainer_id,
                          range |-> <<call[c].start_ts, call[c].end_ts>>,
                          note |-> call[c].note]
                 rowd == [trainer_id |-> call[d].trainer_id,
                          range |-> <<call[d].start_ts, call[d].end_ts>>,
                          note |-> call[d].note]
             IN /\ exclusion =>
                      /\ {ret[c].kind, ret[d].kind} = {"Ok", "ExclusionViolation"}
                      /\ ret[c].kind = "Ok" => (pc[d] = "raised" /\ rowc \in BagToSet(avail))
                      /\ (rowc = rowd => CopiesIn(rowc, avail) = 1)
                      /\ (rowc # rowd =>
                             ~(rowc \in BagToSet(avail) /\ rowd \in BagToSet(avail)))
                /\ ~exclusion =>
                      /\ ret[c].kind = "Ok"
                      /\ ret[d].kind = "Ok"
                      /\ ret[c].val = PyTrue
                      /\ (rowc = rowd => CopiesIn(rowc, avail) >= 2)
                      /\ rowc \in BagToSet(avail)
                      /\ rowd \in BagToSet(avail)

\* Over a store with the constraint, both processes passed the overlap
\* query for trainer 1 with different overlapping ranges; process 1
\* committed and the INSERT of process 2 raised.
SecondInsertRejected ==
    /\ exclusion
    /\ BothPassedTheQuery(1, 2)
    /\ call[1].start_ts # call[2].start_ts
    /\ ret[1].kind = "Ok"
    /\ pc[2] = "raised"
    /\ ret[2].kind = "ExclusionViolation"

\* A step keeps every availability row, adds at most one, and adds one
\* only as the commit of a set_trainer_availability call that then returns
\* True; the step that ends such a call adds exactly its row if the call
\* returns True and none otherwise (no other step of the call adds any).
AvailStepAppends ==
    /\ \A r \in BagToSet(avail) : CopiesIn(r, avail') >= CopiesIn(r, avail)
    /\ BagCardinality(avail') <= BagCardinality(avail) + 1
    /\ avail' # avail =>
          \E c \in Conns :
              /\ call[c].op = "set_trainer_availability"
              /\ ~Finished(c)
              /\ pc'[c] = "returned"
              /\ ret'[c].val = PyTrue
              /\ avail' = avail (+) SetToBag(
                    {[trainer_id |-> call[c].trainer_id,
                      range |-> TsRange(call[c].start_ts, call[c].end_ts),
                      note |-> call[c].note]})
    /\ \A c \in Conns :
          (/\ call[c].op = "set_trainer_availability"
           /\ ~Finished(c)
           /\ pc'[c] \in {"returned", "raised"})
             => /\ ret'[c].val = PyTrue =>
                      BagCardinality(avail') = BagCardinality(avail) + 1
                /\ ret'[c].val # PyTrue => avail' = avail

\* C19: trainer availability is append-only: no step of any operation
\* removes or changes an availability row, a successful
\* set_trainer_availability adds exactly one row and a failed one none.
AvailabilityAppendOnly == [][AvailStepAppends]_vars

\* A second availability row has just been added, in a store that holds
\* members, a class session and a registration written by the other
\* operations.
SecondRowAmongOtherWrites ==
    /\ pc[1] = "returned"
    /\ call[1].op = "set_trainer_availability"
    /\ ret[1].val = PyTrue
    /\ BagCardinality(avail) = 2
    /\ BagCardinality(pre[1].avail) = 1
    /\ members # <<>>
    /\ sessions # <<>>
    /\ regs # EmptyBag


\* C21: a maintenance record's status only moves from not-resolved to
\* 'resolved' and never back.  In every step no record disappears, a
\* resolved record stays exactly as it is (its resolved_at included), and a
\* record that changes was open and changes only in status and resolved_at.
\* resolve_equipment_issue goes on to its commit exactly when the record it
\* names exists and is open, and then sets the status to 'resolved' and
\* returns True; otherwise it returns False and the table is as it was, so a
\* second resolve of a record leaves what the first one stored.
ResolvedIsFinal ==
    /\ Len(maint') >= Len(maint)
    /\ \A i \in DOMAIN maint :
          /\ maint[i].status = "resolved" => maint'[i] = maint[i]
          /\ maint'[i] # maint[i] =>
                /\ maint[i].status = "reported"
                /\ maint'[i].status = "resolved"
                /\ maint'[i].resolved_at \in Stamps
                /\ maint'[i] = [maint[i] EXCEPT !.status = "resolved",
                                                !.resolved_at = maint'[i].resolved_at]
    /\ \A c \in Conns :
          LET i == call[c].maintenance_id
              open == i \in DOMAIN maint /\ maint[i].status = "reported"
          IN  /\ (pc[c] = "resolve_exec" /\ pc'[c] = "resolve_commit") => open
              /\ (pc[c] = "resolve_exec" /\ pc'[c] = "returned") =>
                    /\ ~open
                    /\ ret'[c].val = PyFalse
                    /\ maint' = maint
              /\ (pc[c] = "resolve_commit" /\ pc'[c] # "resolve_commit") =>
                    /\ open
                    /\ pc'[c] = "returned"
                    /\ ret'[c].val = PyTrue
                    /\ maint'[i].status = "resolved"

StatusOnlyMovesToResolved == [][ResolvedIsFinal]_vars

\* C21 witness: a second resolve of a record resolved at stamp 1 has returned
\* False, a later stamp was there to be written, and the record still
\* carries stamp 1.
SecondResolveChangedNothing ==
    \E c \in Conns :
        /\ pc[c] = "returned"
        /\ call[c].op = "resolve_equipment_issue"
        /\ ret[c].val = PyFalse
        /\ call[c].maintenance_id \in DOMAIN pre[c].maint
        /\ pre[c].maint[call[c].maintenance_id].status = "resolved"
        /\ pre[c].maint[call[c].maintenance_id].resolved_at = 1
        /\ MaxStamp > 1
        /\ maint = pre[c].maint

\* C22: when create_or_update_class_session has returned an identifier, the
\* store differs from the store at the call in one class session only.  For
\* an update the identifier returned is the one given, the number of class
\* sessions is the same, every other session is as it was and every
\* registration, those of the updated session included, is as it was.  For
\* an insert there is exactly one more class session, the identifier
\* returned is that of the new session, which has no registration, and all
\* sessions and registrations there were are as they were.
SessionWriteFrame ==
    \A c \in {1} :
        (/\ pc[c] = "returned"
         /\ call[c].op = "create_or_update_class_session"
         /\ ret[c].kind = "Ok")
           => LET a == call[c]
                  was == pre[c]
              IN  /\ regs = was.regs
                  /\ avail = was.avail /\ members = was.members /\ maint = was.maint
                  /\ IF a.session_id # NULL
                     THEN /\ ret[c].val = PyInt(a.session_id)
                          /\ a.session_id \in DOMAIN was.sessions
                          /\ Len(sessions) = Len(was.sessions)
                          /\ sessions[a.session_id] = SessRow(a)
                          /\ \A i \in DOMAIN sessions \ {a.session_id} :
                                sessions[i] = was.sessions[i]
                     ELSE /\ Len(sessions) = Len(was.sessions) + 1
                          /\ ret[c].val = PyInt(Len(sessions))
                          /\ sessions[Len(sessions)] = SessRow(a)
                          /\ RegCount(regs, Len(sessions)) = 0
                          /\ \A i \in DOMAIN was.sessions :
                                sessions[i] = was.sessions[i]

\* C22 witness: a session holding a registration was given another class
\* and another time range by an update, beside a second session.
UpdatedSessionKeptItsRoster ==
    /\ pc[1] = "returned"
    /\ call[1].op = "create_or_update_class_session"
    /\ ret[1].kind = "Ok"
    /\ call[1].session_id # NULL
    /\ Len(sessions) = 2
    /\ RegCount(regs, call[1].session_id) >= 1
    /\ sessions[call[1].session_id] # pre[1].sessions[call[1].session_id]

\* The table an operation writes to.
TableOf(op) ==
    CASE op = "register_member" -> "members"
      [] op = "update_member_profile" -> "members"
      [] op = "log_health_metric" -> "health_metrics"
      [] op = "set_trainer_availability" -> "trainer_availability"
      [] op = "create_or_update_class_session" -> "class_sessions"
      [] op = "register_member_for_class" -> "class_registrations"
      [] op = "report_equipment_issue" -> "equipment_maintenance"
      [] op = "resolve_equipment_issue" -> "equipment_maintenance"
      [] OTHER -> "none"

\* The steps at which an operation stands between its INSERT or UPDATE and
\* its conn.commit().
BeforeCommit ==
    {"member_commit", "profile_commit", "metric_commit", "avail_commit",
     "sess_commit", "reg_commit", "report_commit", "resolve_commit"}

\* C23: on the connection the menu operations share, whenever an operation
\* has returned (with success or failure), and whenever the menu is about
\* to call the next one, no insert or update is pending uncommitted.  An
\* uncommitted write exists only between the statement of the running
\* operation that made it and that operation's own commit, and it is a write
\* to that operation's table: what a commit or rollback ends is never the
\* write of an earlier operation.
NothingPendingAtReturn ==
    \A c \in {1} :
        /\ pc[c] \in {"menu", "returned", "raised"} => pend[c] = NoWrite
        /\ pend[c] # NoWrite =>
              /\ Len(pend[c]) = 1
              /\ pc[c] \in BeforeCommit
              /\ pend[c][1].tbl = TableOf(call[c].op)

\* C23 witness: after a member, a class session, a registration, a health
\* metric and a maintenance record were stored by earlier operations, a
\* duplicate registration failed, rolled back and returned, and all of them
\* are still stored and nothing is pending.
RollbackKeptEarlierWrites ==
    /\ pc[1] = "returned"
    /\ call[1].op = "register_member_for_class"
    /\ ret[1].kind = "AlreadyRegistered"
    /\ pend[1] = NoWrite
    /\ Len(members) = 1
    /\ Len(sessions) = 1
    /\ BagCardinality(regs) = 1
    /\ BagCardinality(metrics) = 1
    /\ Len(maint) = 1
    /\ maint[1].status = "resolved"
====
